---- MODULE Spec2Model ----
(***************************************************************************)
(* Model of src/populate-marketplace.js: the batch that enumerates the     *)
(* storage bucket, fetches per-file metadata, derives title and price and  *)
(* writes one marketplace listing per video file into the document store.  *)
(*                                                                         *)
(* Strings that the code inspects character by character (file names,      *)
(* custom attribute values, titles) are sequences of one-character         *)
(* strings.  JavaScript values that may be null / NaN / a number are       *)
(* tagged records (Null, NaN, Num(n)).  Prices are in cents.               *)
(* One action is one stretch of populateMarketplace between two awaits.    *)
(***************************************************************************)
EXTENDS Integers, Sequences, FiniteSets, TLC

VARIABLES
    files,          \* what bucket.getFiles() returns (names, in storage order)
    pc,             \* where populateMarketplace is suspended
    videoFiles,     \* the filtered candidates
    i,              \* loop index, 1-based (the code's i + 1)
    successCount,
    errorCount,
    metadata,       \* what getVideoMetadata returned for candidate i, or Null
    videoData,      \* the draft handed to createMarketplaceListing, or Null
    listing,        \* what createMarketplaceListing returned, or Null
    store,          \* documents of the marketplace_listings collection
    docCalls,       \* number of document references allocated so far
    summary,        \* what the run printed as its final block
    exitCode,       \* process exit status, or Null while running
    trace,          \* history of this run: <<event, candidate index>>
    run,            \* history: number of the current invocation
    clean,          \* history: no storage or document-store call has failed
    arg,            \* the argument of the function applied on its own, or Null
    result          \* what that function returned, or Null

vars == <<files, pc, videoFiles, i, successCount, errorCount, metadata,
          videoData, listing, store, docCalls, summary, exitCode, trace, run,
          clean, arg, result>>

----------------------------------------------------------------------------
(* Bounds *)

MaxRuns == 2
MaxTokens == 3
MaxDim == 24
MaxSeconds == 130

----------------------------------------------------------------------------
(* JavaScript values *)

Null == [t |-> "null"]
NaN == [t |-> "nan"]
Num(n) == [t |-> "num", v |-> n]
Absent == [t |-> "absent"]
Str(s) == [t |-> "str", s |-> s]
Bool(b) == [t |-> "bool", b |-> b]

\* ToBoolean of the values the code tests with ?:, && and ||
Truthy(x) ==
    CASE x.t = "num" -> x.v # 0
      [] x.t = "str" -> x.s # <<>>
      [] x.t = "bool" -> x.b
      [] OTHER -> FALSE

----------------------------------------------------------------------------
(* Characters *)

LowerAlpha == <<"a","b","c","d","e","f","g","h","i","j","k","l","m",
                "n","o","p","q","r","s","t","u","v","w","x","y","z">>
UpperAlpha == <<"A","B","C","D","E","F","G","H","I","J","K","L","M",
                "N","O","P","Q","R","S","T","U","V","W","X","Y","Z">>
Digits == <<"0","1","2","3","4","5","6","7","8","9">>

IsLower(c) == \E k \in 1..26 : LowerAlpha[k] = c
IsUpper(c) == \E k \in 1..26 : UpperAlpha[k] = c
IsDigit(c) == \E k \in 1..10 : Digits[k] = c
DigitVal(c) == (CHOOSE k \in 1..10 : Digits[k] = c) - 1

toLowerCaseChar(c) ==
    IF IsUpper(c) THEN LowerAlpha[CHOOSE k \in 1..26 : UpperAlpha[k] = c] ELSE c
toUpperCaseChar(c) ==
    IF IsLower(c) THEN UpperAlpha[CHOOSE k \in 1..26 : LowerAlpha[k] = c] ELSE c
toLowerCase(s) == [k \in 1..Len(s) |-> toLowerCaseChar(s[k])]

EndsWith(s, suf) ==
    /\ Len(suf) <= Len(s)
    /\ SubSeq(s, Len(s) - Len(suf) + 1, Len(s)) = suf

----------------------------------------------------------------------------
(* path.basename and path.extname (posix): trailing slashes are ignored *)

LastIndexOf(s, c) ==
    IF \E k \in 1..Len(s) : s[k] = c
    THEN CHOOSE k \in 1..Len(s) : s[k] = c /\ \A m \in (k+1)..Len(s) : s[m] # c
    ELSE 0

RECURSIVE StripTrailingSlashes(_)
StripTrailingSlashes(p) ==
    IF p # <<>> /\ p[Len(p)] = "/"
    THEN StripTrailingSlashes(SubSeq(p, 1, Len(p) - 1))
    ELSE p

basename(p) ==
    LET q == StripTrailingSlashes(p)
    IN  SubSeq(q, LastIndexOf(q, "/") + 1, Len(q))

extname(p) ==
    LET base == basename(p)
        dot == LastIndexOf(base, ".")
    IN  IF dot = 0 \/ dot = 1 \/ base = <<".", ".">>
        THEN <<>>
        ELSE SubSeq(base, dot, Len(base))

VideoExtensions ==
    { <<".","m","p","4">>, <<".","m","o","v">>, <<".","a","v","i">>,
      <<".","w","e","b","m">> }

\* mutant: the allow-list is compared with the end of the whole name
IsVideoFile_Suffix(name) ==
    \E e \in VideoExtensions : EndsWith(toLowerCase(name), e)

\* the predicate of files.filter(...)
IsVideoFile(name) == toLowerCase(extname(name)) \in VideoExtensions

\* mutant: the candidates come out in the opposite order
RECURSIVE FilterVideoFiles_Reversed(_)
FilterVideoFiles_Reversed(fs) ==
    IF fs = <<>> THEN <<>>
    ELSE IF IsVideoFile(Head(fs))
         THEN FilterVideoFiles_Reversed(Tail(fs)) \o <<Head(fs)>>
         ELSE FilterVideoFiles_Reversed(Tail(fs))

RECURSIVE FilterVideoFiles(_)
FilterVideoFiles(fs) ==
    IF fs = <<>> THEN <<>>
    ELSE IF IsVideoFile(Head(fs))
         THEN <<Head(fs)>> \o FilterVideoFiles(Tail(fs))
         ELSE FilterVideoFiles(Tail(fs))

----------------------------------------------------------------------------
(* parseFilename: the title *)

\* filename.replace(/\.(mp4|mov|avi|webm)$/i, '')
StripExtension(filename) ==
    IF \E e \in VideoExtensions : EndsWith(toLowerCase(filename), e)
    THEN LET e == CHOOSE x \in VideoExtensions : EndsWith(toLowerCase(filename), x)
         IN  SubSeq(filename, 1, Len(filename) - Len(e))
    ELSE filename

\* mutant: only the underscore is taken for a separator
ReplaceSeparators_UnderscoreOnly(s) ==
    [k \in 1..Len(s) |-> IF s[k] = "_" THEN " " ELSE s[k]]

\* .replace(/[-_]/g, ' ')
ReplaceSeparators(s) ==
    [k \in 1..Len(s) |-> IF s[k] \in {"-", "_"} THEN " " ELSE s[k]]

\* .replace(/([a-z])([A-Z])/g, '$1 $2')
RECURSIVE SplitCamelCase(_)
SplitCamelCase(s) ==
    IF Len(s) < 2 THEN s
    ELSE IF IsLower(s[1]) /\ IsUpper(s[2])
         THEN <<s[1], " ">> \o SplitCamelCase(Tail(s))
         ELSE <<s[1]>> \o SplitCamelCase(Tail(s))

CleanName(filename) ==
    toLowerCase(SplitCamelCase(ReplaceSeparators(StripExtension(filename))))

\* cleanName.split(/\s+/): the pieces between runs of spaces (the pieces at
\* the two ends may be empty)
RECURSIVE SplitOnSpaces(_, _)
SplitOnSpaces(s, cur) ==
    IF s = <<>> THEN <<cur>>
    ELSE IF Head(s) = " "
         THEN IF Len(s) >= 2 /\ s[2] = " "
              THEN SplitOnSpaces(Tail(s), cur)
              ELSE <<cur>> \o SplitOnSpaces(Tail(s), <<>>)
         ELSE SplitOnSpaces(Tail(s), Append(cur, Head(s)))

\* .filter(w => w.length > 2)
Words(filename) == SelectSeq(SplitOnSpaces(CleanName(filename), <<>>),
                             LAMBDA w : Len(w) > 2)

Capitalize(w) == <<toUpperCaseChar(w[1])>> \o Tail(w)

RECURSIVE JoinWithSpace(_)
JoinWithSpace(ws) ==
    IF ws = <<>> THEN <<>>
    ELSE IF Len(ws) = 1 THEN Head(ws)
         ELSE Head(ws) \o <<" ">> \o JoinWithSpace(Tail(ws))

RawTitle(filename) ==
    LET ws == Words(filename)
    IN  JoinWithSpace([k \in 1..Len(ws) |-> Capitalize(ws[k])])

FallbackTitle ==
    <<"S","t","o","c","k"," ","V","i","d","e","o"," ",
      "F","o","o","t","a","g","e">>

----------------------------------------------------------------------------
(* parseFilename: tags, use cases and description *)

\* categoryMap, in the order of its keys
categoryMap ==
    << [key |-> <<"n","a","t","u","r","e">>,
        tags |-> <<"nature", "landscape", "outdoor", "scenery">>],
       [key |-> <<"c","i","t","y">>,
        tags |-> <<"urban", "cityscape", "architecture", "downtown">>],
       [key |-> <<"o","c","e","a","n">>,
        tags |-> <<"ocean", "sea", "water", "beach", "marine">>],
       [key |-> <<"m","o","u","n","t","a","i","n">>,
        tags |-> <<"mountain", "hiking", "nature", "landscape">>],
       [key |-> <<"s","u","n","s","e","t">>,
        tags |-> <<"sunset", "golden hour", "evening", "sky">>],
       [key |-> <<"s","u","n","r","i","s","e">>,
        tags |-> <<"sunrise", "morning", "dawn", "sky">>],
       [key |-> <<"f","o","o","d">>,
        tags |-> <<"food", "culinary", "cooking", "restaurant">>],
       [key |-> <<"p","e","o","p","l","e">>,
        tags |-> <<"people", "lifestyle", "social", "human">>],
       [key |-> <<"b","u","s","i","n","e","s","s">>,
        tags |-> <<"business", "corporate", "professional", "office">>],
       [key |-> <<"t","e","c","h","n","o","l","o","g","y">>,
        tags |-> <<"technology", "tech", "digital", "modern">>],
       [key |-> <<"t","r","a","v","e","l">>,
        tags |-> <<"travel", "vacation", "tourism", "destination">>],
       [key |-> <<"f","i","t","n","e","s","s">>,
        tags |-> <<"fitness", "health", "exercise", "workout">>],
       [key |-> <<"a","b","s","t","r","a","c","t">>,
        tags |-> <<"abstract", "artistic", "creative", "design">>],
       [key |-> <<"a","e","r","i","a","l">>,
        tags |-> <<"aerial", "drone", "birds eye", "top view">>],
       [key |-> <<"s","l","o","w"," ","m","o","t","i","o","n">>,
        tags |-> <<"slow motion", "slo mo", "cinematic">>],
       [key |-> <<"t","i","m","e"," ","l","a","p","s","e">>,
        tags |-> <<"time lapse", "timelapse", "fast motion">>],
       [key |-> <<"n","i","g","h","t">>,
        tags |-> <<"night", "evening", "dark", "nighttime">>],
       [key |-> <<"d","a","y">>,
        tags |-> <<"day", "daytime", "bright", "sunny">>],
       [key |-> <<"r","a","i","n">>,
        tags |-> <<"rain", "weather", "wet", "storm">>],
       [key |-> <<"s","n","o","w">>,
        tags |-> <<"snow", "winter", "cold", "white">>],
       [key |-> <<"f","i","r","e">>,
        tags |-> <<"fire", "flame", "heat", "burning">>],
       [key |-> <<"w","a","t","e","r">>,
        tags |-> <<"water", "liquid", "fluid", "aqua">>],
       [key |-> <<"s","k","y">>,
        tags |-> <<"sky", "clouds", "atmosphere", "aerial">>] >>

\* useCaseMap
useCaseMap ==
    << [key |-> <<"n","a","t","u","r","e">>,
        useCases |-> <<"Content Creation", "Marketing", "Background", "Social Media">>],
       [key |-> <<"c","i","t","y">>,
        useCases |-> <<"Marketing", "Real Estate", "Travel", "Background">>],
       [key |-> <<"b","u","s","i","n","e","s","s">>,
        useCases |-> <<"Corporate Videos", "Marketing", "Presentations">>],
       [key |-> <<"f","o","o","d">>,
        useCases |-> <<"Restaurant Marketing", "Content Creation", "Social Media">>],
       [key |-> <<"t","e","c","h","n","o","l","o","g","y">>,
        useCases |-> <<"Tech Reviews", "Marketing", "Presentations">>],
       [key |-> <<"a","b","s","t","r","a","c","t">>,
        useCases |-> <<"Background", "Transitions", "Creative Projects">>],
       [key |-> <<"a","e","r","i","a","l">>,
        useCases |-> <<"Real Estate", "Travel", "Marketing", "Documentaries">>] >>

\* String.prototype.includes
Includes(s, sub) ==
    \E k \in 0..(Len(s) - Len(sub)) : \A j \in 1..Len(sub) : s[k + j] = sub[j]

\* word.includes(category) || category.includes(word)
Matches(word, category) == Includes(word, category) \/ Includes(category, word)

\* Set.prototype.add of each item in turn: insertion order, no duplicates
RECURSIVE AddAll(_, _)
AddAll(ordered, items) ==
    IF items = <<>> THEN ordered
    ELSE IF \E k \in 1..Len(ordered) : ordered[k] = Head(items)
         THEN AddAll(ordered, Tail(items))
         ELSE AddAll(Append(ordered, Head(items)), Tail(items))

\* useCaseMap[category], or <<>> when the category has no entry
UseCasesOf(category) ==
    IF \E k \in 1..Len(useCaseMap) : useCaseMap[k].key = category
    THEN useCaseMap[CHOOSE k \in 1..Len(useCaseMap) :
                        useCaseMap[k].key = category].useCases
    ELSE <<>>

\* the two forEach loops: words outside, categories inside; acc is the pair
\* of the tags and use cases found so far
RECURSIVE MatchCategories(_, _, _)
MatchCategories(word, c, acc) ==
    IF c > Len(categoryMap) THEN acc
    ELSE IF Matches(word, categoryMap[c].key)
         THEN MatchCategories(word, c + 1,
                  [tags |-> AddAll(acc.tags, categoryMap[c].tags),
                   useCases |-> AddAll(acc.useCases,
                                       UseCasesOf(categoryMap[c].key))])
         ELSE MatchCategories(word, c + 1, acc)

RECURSIVE MatchWords(_, _)
MatchWords(ws, acc) ==
    IF ws = <<>> THEN acc
    ELSE MatchWords(Tail(ws), MatchCategories(Head(ws), 1, acc))

BaselineTags == <<"stock footage", "video clip">>
GenericUseCases == <<"Content Creation", "Marketing", "Background", "Social Media">>
MaxTags == 10
MaxUseCases == 6

\* mutant: the last n items are kept
Slice_FromEnd(xs, n) ==
    SubSeq(xs, IF Len(xs) < n THEN 1 ELSE Len(xs) - n + 1, Len(xs))

\* Array.prototype.slice(0, n)
Slice(xs, n) == SubSeq(xs, 1, IF Len(xs) < n THEN Len(xs) ELSE n)

\* mutant: the tag Set starts empty
Discovered_NoBaseline(ws) == MatchWords(ws, [tags |-> <<>>, useCases |-> <<>>])

\* the tags and use cases in the two Sets after the forEach loops
Discovered(ws) == MatchWords(ws, [tags |-> BaselineTags, useCases |-> <<>>])

\* the template literal: the text before the interpolation, the interpolated
\* title.toLowerCase(), the text after it
Description(title) ==
    << "High-quality ",
       toLowerCase(title),
       " stock footage perfect for your creative projects. This video can be used for content creation, marketing campaigns, social media posts, and more." >>

\* mutant: the title is returned without the generic fallback
parseFilename_NoFallback(filename) ==
    LET title == RawTitle(filename)
        found == Discovered(Words(filename))
        useCases == IF Len(found.useCases) = 0 THEN GenericUseCases
                    ELSE found.useCases
    IN  [title |-> title,
         tags |-> Slice(found.tags, MaxTags),
         useCases |-> Slice(useCases, MaxUseCases),
         description |-> Description(title)]

\* title and description are built from the title as generated; the title
\* returned is title || 'Stock Video Footage'
parseFilename(filename) ==
    LET title == RawTitle(filename)
        found == Discovered(Words(filename))
        useCases == IF Len(found.useCases) = 0 THEN GenericUseCases
                    ELSE found.useCases
    IN  [title |-> IF title # <<>> THEN title ELSE FallbackTitle,
         tags |-> Slice(found.tags, MaxTags),
         useCases |-> Slice(useCases, MaxUseCases),
         description |-> Description(title)]

----------------------------------------------------------------------------
(* getVideoMetadata: the custom attributes *)

\* parseInt of a string without leading blanks or sign: the value of the
\* leading decimal digits, NaN when there is none
RECURSIVE DigitsValue(_, _)
DigitsValue(s, acc) ==
    IF s = <<>> \/ ~IsDigit(Head(s)) THEN acc
    ELSE DigitsValue(Tail(s), 10 * acc + DigitVal(Head(s)))

parseInt(s) ==
    IF s = <<>> \/ ~IsDigit(Head(s)) THEN NaN ELSE Num(DigitsValue(s, 0))

\* parseFloat, for the strings of CustomBags: they have no ".", exponent or
\* sign, and on those it returns what parseInt returns
parseFloat(s) == parseInt(s)

\* customMetadata.x ? parseInt(customMetadata.x) : null
NumericAttribute(raw) == IF Truthy(raw) THEN parseInt(raw.s) ELSE Null
FloatAttribute(raw) == IF Truthy(raw) THEN parseFloat(raw.s) ELSE Null

TrueString == <<"t","r","u","e">>

\* customMetadata.hasAudio === 'true' || customMetadata.hasAudio === true
AudioAttribute(raw) == raw = Str(TrueString) \/ raw = Bool(TRUE)

SignedUrl(name) == [signedUrlOf |-> name]

\* the object getVideoMetadata returns when both storage calls succeed
getVideoMetadata(name, custom) ==
    [url |-> SignedUrl(name),
     width |-> NumericAttribute(custom.width),
     height |-> NumericAttribute(custom.height),
     duration |-> FloatAttribute(custom.duration),
     hasAudio |-> AudioAttribute(custom.hasAudio)]

----------------------------------------------------------------------------
(* Pricing *)

DefaultPrice == 499
LongPrice == 799
UhdPrice == 999
LongThreshold == 30
UhdWidth == 3840

\* mutant: the two overrides are applied in the opposite order
ComputePrice_DurationLast(duration, width) ==
    LET p0 == DefaultPrice
        p1 == IF Truthy(width) /\ width.v >= UhdWidth THEN UhdPrice ELSE p0
        p2 == IF Truthy(duration) /\ duration.v > LongThreshold THEN LongPrice ELSE p1
    IN  p2

\* let price = 4.99; if (duration && duration > 30) ...; if (width && width >= 3840) ...
ComputePrice(duration, width) ==
    LET p0 == DefaultPrice
        p1 == IF Truthy(duration) /\ duration.v > LongThreshold THEN LongPrice ELSE p0
        p2 == IF Truthy(width) /\ width.v >= UhdWidth THEN UhdPrice ELSE p1
    IN  p2

----------------------------------------------------------------------------
(* getAspectRatio, formatDuration and the resolution string *)

Abs(n) == IF n < 0 THEN -n ELSE n

\* template-literal rendering of a non-negative whole number
RECURSIVE DecimalString(_)
DecimalString(n) ==
    IF n < 10 THEN <<Digits[n + 1]>>
    ELSE DecimalString(n \div 10) \o <<Digits[(n % 10) + 1]>>

UnknownLabel == <<"U","n","k","n","o","w","n">>
Label16x9 == <<"1","6",":","9"," ","(","L","a","n","d","s","c","a","p","e",")">>
Label9x16 == <<"9",":","1","6"," ","(","P","o","r","t","r","a","i","t",")">>
Label1x1 == <<"1",":","1"," ","(","S","q","u","a","r","e",")">>
Label4x3 == <<"4",":","3"," ","(","S","t","a","n","d","a","r","d",")">>
Label21x9 == <<"2","1",":","9"," ","(","U","l","t","r","a","w","i","d","e",")">>

\* mutant: the difference is compared without Math.abs
Near_NoAbs(w, h, n, d) == 10 * (w * d - n * h) < d * h

\* mutant: a tolerance of 0.3
Near_Wide(w, h, n, d) == 10 * Abs(w * d - n * h) < 3 * d * h

\* Math.abs(w / h - n / d) < 0.1 for h > 0, in exact arithmetic: both sides
\* multiplied by 10 * d * h.  Where the distance is exactly 0.1 the double
\* arithmetic of the code decides by rounding; such pairs are left out of
\* the inputs (see OnToleranceEdge).
Near(w, h, n, d) == 10 * Abs(w * d - n * h) < d * h

OnToleranceEdge(w, h) ==
    \E r \in { <<16, 9>>, <<9, 16>>, <<1, 1>>, <<4, 3>>, <<21, 9>> } :
        10 * Abs(w * r[2] - r[1] * h) = r[2] * h

\* `${width}x${height}`
Dimensions(w, h) == DecimalString(w) \o <<"x">> \o DecimalString(h)

getAspectRatio(width, height) ==
    IF ~Truthy(width) \/ ~Truthy(height) THEN UnknownLabel
    ELSE LET w == width.v
             h == height.v
         IN  IF Near(w, h, 16, 9) THEN Label16x9
             ELSE IF Near(w, h, 9, 16) THEN Label9x16
             ELSE IF Near(w, h, 1, 1) THEN Label1x1
             ELSE IF Near(w, h, 4, 3) THEN Label4x3
             ELSE IF Near(w, h, 21, 9) THEN Label21x9
             ELSE Dimensions(w, h)

SecondsPerMinute == 60

\* mutant: the seconds are not reduced modulo 60
formatDuration_NoModulo(seconds) ==
    IF ~Truthy(seconds) THEN UnknownLabel
    ELSE LET mins == seconds.v \div SecondsPerMinute
             secs == seconds.v
         IN  IF mins > 0
             THEN DecimalString(mins) \o <<"m", " ">> \o DecimalString(secs) \o <<"s">>
             ELSE DecimalString(secs) \o <<"s">>

formatDuration(seconds) ==
    IF ~Truthy(seconds) THEN UnknownLabel
    ELSE LET mins == seconds.v \div SecondsPerMinute
             secs == seconds.v % SecondsPerMinute
         IN  IF mins > 0
             THEN DecimalString(mins) \o <<"m", " ">> \o DecimalString(secs) \o <<"s">>
             ELSE DecimalString(secs) \o <<"s">>

\* metadata.width && metadata.height ? `${width}x${height}` : 'Unknown'
Resolution(width, height) ==
    IF Truthy(width) /\ Truthy(height) THEN Dimensions(width.v, height.v)
    ELSE UnknownLabel

----------------------------------------------------------------------------
(* The environment: the bucket's listing and the files' custom attributes *)

\* object names a bucket may hold, in the order the listing returns them
StorageNames ==
    << <<".","m","p","4">>,
       <<"A","b",".","M","O","V">>,
       <<"d","/","A","b",".","M","O","V">>,
       <<"d","/","s","u","n","S","e","t","_","s","k","y",".","m","p","4">>,
       <<"n","o","t","e","s",".","t","x","t">> >>

\* object names the filter's predicate is applied to on its own: a stem,
\* an ending, and trailing slashes as folder placeholders have them
NameStems ==
    { <<>>, <<"a">>, <<"d","/","a">>, <<"d","/">>, <<".">>, <<"a",".","b">> }
NameEndings ==
    { <<>>, <<".","m","p","4">>, <<".","M","O","V">>, <<".","A","v","i">>,
      <<".","w","e","b","m">>, <<".","t","x","t">>, <<".","m","p","4","x">>,
      <<"m","p","4">> }
NameTails == { <<>>, <<"/">>, <<"/","/">> }
ObjectNames ==
    { a \o b \o c : a \in NameStems, b \in NameEndings, c \in NameTails }

RECURSIVE PickNames(_, _)
PickNames(k, S) ==
    IF k > Len(StorageNames) THEN <<>>
    ELSE IF k \in S THEN <<StorageNames[k]>> \o PickNames(k + 1, S)
         ELSE PickNames(k + 1, S)

BucketListings == { PickNames(1, S) : S \in SUBSET (1..Len(StorageNames)) }

Bag(w, h, d, a) == [width |-> w, height |-> h, duration |-> d, hasAudio |-> a]

\* metadata.metadata of a file: string-valued custom attributes, any absent
CustomBags ==
    { Bag(Absent, Absent, Absent, Absent),
      Bag(Str(<<"1","9","2","0">>), Str(<<"1","0","8","0">>), Str(<<"4","0">>),
          Str(TrueString)),
      Bag(Str(<<"3","8","4","0">>), Str(<<"2","1","6","0">>), Str(<<"4","0">>),
          Absent),
      Bag(Str(<<"1","2","8","0">>), Str(<<"9","6","0">>), Str(<<"1","0">>),
          Bool(TRUE)),
      Bag(Str(<<"3","8","4","0">>), Str(<<"2","1","6","0">>), Absent,
          Str(<<"f","a","l","s","e">>)),
      Bag(Str(<<"a","b","c">>), Absent, Str(<<"3","0">>), Absent),
      Bag(Str(<<"3","8","3","9">>), Str(<<"2","1","6","0">>), Str(<<"3","1">>),
          Absent),
      Bag(Str(<<>>), Str(<<"0">>), Str(<<"0">>), Absent) }

\* the attributes drawn in SpecRerun, which is about the number of listings
\* that repeated runs leave and not about their derived fields
RerunBags ==
    { Bag(Str(<<"1","9","2","0">>), Str(<<"1","0","8","0">>), Str(<<"4","0">>),
          Str(TrueString)) }

----------------------------------------------------------------------------
(* createMarketplaceListing *)

\* mutant: every call gets the same document identifier
AutoId_Constant(calls) == 1

\* db.collection('marketplace_listings').doc(): a fresh identifier per call
AutoId(calls) == calls + 1

\* the listing object built before the write
BuildListing(vd, id) ==
    [id |-> id,
     sellerId |-> "admin",
     title |-> vd.title,
     description |-> vd.description,
     videoUrl |-> vd.url,
     prompt |-> toLowerCase(vd.title),
     price |-> IF vd.price # 0 THEN vd.price ELSE DefaultPrice,
     tags |-> vd.tags,
     hasAudio |-> vd.hasAudio,
     useCases |-> vd.useCases,
     thumbnailUrl |-> vd.url,
     status |-> "published",
     sold |-> 0,
     aspectRatio |-> vd.aspectRatio,
     duration |-> vd.duration,
     durationSeconds |-> vd.durationSeconds,
     resolution |-> vd.resolution,
     fileName |-> vd.fileName]

\* mutant: a listing of the same source file is replaced, not added
SetDocument_Upsert(st, l) == { x \in st : x.videoUrl # l.videoUrl } \cup {l}

\* listingRef.set(listing): the document with that identifier becomes listing
SetDocument(st, l) == { x \in st : x.id # l.id } \cup {l}

----------------------------------------------------------------------------
(* populateMarketplace *)

NoSummary == [kind |-> "none"]
NoFilesSummary == [kind |-> "nofiles", found |-> 0]
CompleteSummary(sc, ec, total) ==
    [kind |-> "complete", succeeded |-> sc, failed |-> ec, total |-> total]

Init ==
    /\ files \in BucketListings
    /\ pc = "start"
    /\ videoFiles = <<>>
    /\ i = 0
    /\ successCount = 0
    /\ errorCount = 0
    /\ metadata = Null
    /\ videoData = Null
    /\ listing = Null
    /\ store = {}
    /\ docCalls = 0
    /\ summary = NoSummary
    /\ exitCode = Null
    /\ trace = <<>>
    /\ run = 1
    /\ clean = TRUE
    /\ arg = Null
    /\ result = Null

\* mutant: a failed enumeration is taken for an empty bucket
EnumerateFail_Swallow ==
    /\ pc = "start"
    /\ pc' = "returned"
    /\ summary' = NoFilesSummary
    /\ trace' = Append(trace, <<"listFail", 0>>)
    /\ clean' = FALSE
    /\ UNCHANGED <<files, videoFiles, i, successCount, errorCount, metadata,
                   videoData, listing, store, docCalls, exitCode, run>>
    /\ UNCHANGED <<arg, result>>

\* bucket.getFiles() throws: the catch block exits with status 1
EnumerateFail ==
    /\ pc = "start"
    /\ pc' = "exited"
    /\ exitCode' = Num(1)
    /\ trace' = Append(trace, <<"listFail", 0>>)
    /\ clean' = FALSE
    /\ UNCHANGED <<files, videoFiles, i, successCount, errorCount, metadata,
                   videoData, listing, store, docCalls, summary, run>>
    /\ UNCHANGED <<arg, result>>

\* mutant: no early return, the empty loop falls through to the summary block
EnumerateOk_NoEarlyReturn ==
    /\ pc = "start"
    /\ videoFiles' = FilterVideoFiles(files)
    /\ IF Len(videoFiles') = 0
       THEN /\ summary' = CompleteSummary(0, 0, 0)
            /\ pc' = "returned"
            /\ trace' = Append(trace, <<"listOk", 0>>)
            /\ UNCHANGED i
       ELSE /\ i' = 1
            /\ trace' = trace \o << <<"listOk", 0>>, <<"fetchStart", 1>> >>
            /\ pc' = "fetch"
            /\ UNCHANGED summary
    /\ successCount' = 0
    /\ errorCount' = 0
    /\ UNCHANGED <<files, metadata, videoData, listing, store, docCalls,
                   exitCode, run, clean>>
    /\ UNCHANGED <<arg, result>>

\* bucket.getFiles() returns: filter, the zero-files return, or the first
\* iteration up to its await of getVideoMetadata
EnumerateOk ==
    /\ pc = "start"
    /\ videoFiles' = FilterVideoFiles(files)
    /\ IF Len(videoFiles') = 0
       THEN /\ summary' = NoFilesSummary
            /\ pc' = "returned"
            /\ trace' = Append(trace, <<"listOk", 0>>)
            /\ UNCHANGED i
       ELSE /\ i' = 1
            /\ trace' = trace \o << <<"listOk", 0>>, <<"fetchStart", 1>> >>
            /\ pc' = "fetch"
            /\ UNCHANGED summary
    /\ successCount' = 0
    /\ errorCount' = 0
    /\ UNCHANGED <<files, metadata, videoData, listing, store, docCalls,
                   exitCode, run, clean>>
    /\ UNCHANGED <<arg, result>>

\* the loop test with index j: start iteration j up to its await of
\* getVideoMetadata, or print the summary block and return
LoopHead(j, tr, sc, ec) ==
    /\ i' = j
    /\ IF j <= Len(videoFiles)
       THEN /\ pc' = "fetch"
            /\ trace' = Append(tr, <<"fetchStart", j>>)
            /\ UNCHANGED summary
       ELSE /\ pc' = "returned"
            /\ trace' = tr
            /\ summary' = CompleteSummary(sc, ec, Len(videoFiles))

\* mutant: break instead of continue
FetchFail_Break ==
    /\ pc = "fetch"
    /\ errorCount' = errorCount + 1
    /\ i' = i
    /\ pc' = "returned"
    /\ trace' = Append(trace, <<"fetchFail", i>>)
    /\ summary' = CompleteSummary(successCount, errorCount + 1, Len(videoFiles))
    /\ clean' = FALSE
    /\ UNCHANGED <<files, videoFiles, successCount, metadata, videoData,
                   listing, store, docCalls, exitCode, run>>
    /\ UNCHANGED <<arg, result>>

\* mutant: a failed fetch is tried a second time before it is counted
FetchFail_Retry ==
    /\ pc = "fetch"
    /\ IF \E j \in 1..Len(trace) : trace[j] = <<"fetchFail", i>>
       THEN /\ errorCount' = errorCount + 1
            /\ LoopHead(i + 1, Append(trace, <<"fetchFail", i>>),
                        successCount, errorCount + 1)
       ELSE /\ trace' = trace \o << <<"fetchFail", i>>, <<"fetchStart", i>> >>
            /\ UNCHANGED <<i, pc, errorCount, summary>>
    /\ clean' = FALSE
    /\ UNCHANGED <<files, videoFiles, successCount, metadata, videoData,
                   listing, store, docCalls, exitCode, run>>
    /\ UNCHANGED <<arg, result>>

\* mutant: the skipped file is not counted
FetchFail_NoCount ==
    /\ pc = "fetch"
    /\ UNCHANGED errorCount
    /\ LoopHead(i + 1, Append(trace, <<"fetchFail", i>>), successCount,
                errorCount)
    /\ clean' = FALSE
    /\ UNCHANGED <<files, videoFiles, successCount, metadata, videoData,
                   listing, store, docCalls, exitCode, run>>
    /\ UNCHANGED <<arg, result>>

\* getVideoMetadata caught an error and returned null: count and continue
FetchFail ==
    /\ pc = "fetch"
    /\ errorCount' = errorCount + 1
    /\ LoopHead(i + 1, Append(trace, <<"fetchFail", i>>), successCount,
                errorCount + 1)
    /\ clean' = FALSE
    /\ UNCHANGED <<files, videoFiles, successCount, metadata, videoData,
                   listing, store, docCalls, exitCode, run>>
    /\ UNCHANGED <<arg, result>>

\* getVideoMetadata returned the metadata: classify, price, build the draft
\* and call createMarketplaceListing up to its await of listingRef.set
FetchOk(custom) ==
    /\ pc = "fetch"
    /\ LET name == videoFiles[i]
           fileName == basename(name)
           md == getVideoMetadata(name, custom)
           parsed == parseFilename(fileName)
       IN  /\ metadata' = md
           /\ videoData' = [fileName |-> fileName,
                            url |-> md.url,
                            title |-> parsed.title,
                            description |-> parsed.description,
                            tags |-> parsed.tags,
                            useCases |-> parsed.useCases,
                            hasAudio |-> md.hasAudio,
                            aspectRatio |-> getAspectRatio(md.width, md.height),
                            duration |-> formatDuration(md.duration),
                            durationSeconds |-> md.duration,
                            resolution |-> Resolution(md.width, md.height),
                            price |-> ComputePrice(md.duration, md.width)]
    /\ docCalls' = AutoId(docCalls)
    /\ trace' = trace \o << <<"fetchOk", i>>, <<"classify", i>>,
                            <<"writeStart", i>> >>
    /\ pc' = "write"
    /\ UNCHANGED <<files, videoFiles, i, successCount, errorCount, listing,
                   store, summary, exitCode, run, clean>>
    /\ UNCHANGED <<arg, result>>

\* listingRef.set resolved: the document is stored and the listing returned
WriteOk ==
    /\ pc = "write"
    /\ LET l == BuildListing(videoData, docCalls)
       IN  /\ store' = SetDocument(store, l)
           /\ listing' = l
    /\ trace' = Append(trace, <<"writeOk", i>>)
    /\ pc' = "count"
    /\ UNCHANGED <<files, videoFiles, i, successCount, errorCount, metadata,
                   videoData, docCalls, summary, exitCode, run, clean>>
    /\ UNCHANGED <<arg, result>>

\* mutant: the rejected write has stored the document all the same
WriteFail_Stored ==
    /\ pc = "write"
    /\ store' = SetDocument(store, BuildListing(videoData, docCalls))
    /\ listing' = Null
    /\ trace' = Append(trace, <<"writeFail", i>>)
    /\ pc' = "count"
    /\ clean' = FALSE
    /\ UNCHANGED <<files, videoFiles, i, successCount, errorCount, metadata,
                   videoData, docCalls, summary, exitCode, run>>
    /\ UNCHANGED <<arg, result>>

\* mutant: the rejection is not caught by the writer and reaches the
\* catch block of populateMarketplace
WriteFail_Throw ==
    /\ pc = "write"
    /\ listing' = Null
    /\ trace' = Append(trace, <<"writeFail", i>>)
    /\ pc' = "exited"
    /\ exitCode' = Num(1)
    /\ clean' = FALSE
    /\ UNCHANGED <<files, videoFiles, i, successCount, errorCount, metadata,
                   videoData, store, docCalls, summary, run>>
    /\ UNCHANGED <<arg, result>>

\* listingRef.set rejected: the catch block returns null
WriteFail ==
    /\ pc = "write"
    /\ listing' = Null
    /\ trace' = Append(trace, <<"writeFail", i>>)
    /\ pc' = "count"
    /\ clean' = FALSE
    /\ UNCHANGED <<files, videoFiles, i, successCount, errorCount, metadata,
                   videoData, store, docCalls, summary, exitCode, run>>
    /\ UNCHANGED <<arg, result>>

\* mutant: the writer's result is not looked at
Count_AlwaysSuccess ==
    /\ pc = "count"
    /\ successCount' = successCount + 1
    /\ UNCHANGED errorCount
    /\ pc' = "delay"
    /\ UNCHANGED <<files, videoFiles, i, metadata, videoData, listing, store,
                   docCalls, summary, exitCode, trace, run, clean>>
    /\ UNCHANGED <<arg, result>>

\* if (listing) successCount++ else errorCount++, then the timer is set
Count ==
    /\ pc = "count"
    /\ IF listing # Null
       THEN /\ successCount' = successCount + 1
            /\ UNCHANGED errorCount
       ELSE /\ errorCount' = errorCount + 1
            /\ UNCHANGED successCount
    /\ pc' = "delay"
    /\ UNCHANGED <<files, videoFiles, i, metadata, videoData, listing, store,
                   docCalls, summary, exitCode, trace, run, clean>>
    /\ UNCHANGED <<arg, result>>

\* the 500 ms timer fired: next iteration, or the summary
Delay ==
    /\ pc = "delay"
    /\ metadata' = Null
    /\ videoData' = Null
    /\ listing' = Null
    /\ LoopHead(i + 1, Append(trace, <<"delay", i>>), successCount, errorCount)
    /\ UNCHANGED <<files, videoFiles, successCount, errorCount, store,
                   docCalls, exitCode, run, clean>>
    /\ UNCHANGED <<arg, result>>

\* mutant: a run with per-file errors exits with status 1
Exit_FailOnErrors ==
    /\ pc = "returned"
    /\ pc' = "exited"
    /\ exitCode' = IF errorCount > 0 THEN Num(1) ELSE Num(0)
    /\ UNCHANGED <<files, videoFiles, i, successCount, errorCount, metadata,
                   videoData, listing, store, docCalls, summary, trace, run,
                   clean>>
    /\ UNCHANGED <<arg, result>>

\* populateMarketplace() resolved: .then() exits with status 0
Exit ==
    /\ pc = "returned"
    /\ pc' = "exited"
    /\ exitCode' = Num(0)
    /\ UNCHANGED <<files, videoFiles, i, successCount, errorCount, metadata,
                   videoData, listing, store, docCalls, summary, trace, run,
                   clean>>
    /\ UNCHANGED <<arg, result>>

\* the script is started again over the same bucket and document store
Rerun ==
    /\ pc = "exited"
    /\ run < MaxRuns
    /\ run' = run + 1
    /\ pc' = "start"
    /\ videoFiles' = <<>>
    /\ i' = 0
    /\ successCount' = 0
    /\ errorCount' = 0
    /\ metadata' = Null
    /\ videoData' = Null
    /\ listing' = Null
    /\ summary' = NoSummary
    /\ exitCode' = Null
    /\ trace' = <<>>
    /\ UNCHANGED <<files, store, docCalls, clean>>
    /\ UNCHANGED <<arg, result>>

Next ==
    \/ EnumerateFail
    \/ EnumerateOk
    \/ FetchFail
    \/ \E custom \in CustomBags : FetchOk(custom)
    \/ WriteOk
    \/ WriteFail
    \/ Count
    \/ Delay
    \/ Exit

Spec == Init /\ [][Next]_vars

\* every pending call settles and the timer fires: a step that can be taken
\* is taken
SpecLive == Init /\ [][Next]_vars /\ WF_vars(Next)

NextRerun ==
    \/ EnumerateFail
    \/ EnumerateOk
    \/ FetchFail
    \/ \E custom \in RerunBags : FetchOk(custom)
    \/ WriteOk
    \/ WriteFail
    \/ Count
    \/ Delay
    \/ Exit
    \/ Rerun

SpecRerun == Init /\ [][NextRerun]_vars

----------------------------------------------------------------------------
(* The functions applied on their own *)

\* no run of populateMarketplace is going on
NoRun ==
    /\ files = <<>>
    /\ videoFiles = <<>>
    /\ i = 0
    /\ successCount = 0
    /\ errorCount = 0
    /\ metadata = Null
    /\ videoData = Null
    /\ listing = Null
    /\ store = {}
    /\ docCalls = 0
    /\ summary = NoSummary
    /\ exitCode = Null
    /\ trace = <<>>
    /\ run = 1
    /\ clean = TRUE

\* file names: up to MaxTokens tokens (some empty, short or camel-cased)
\* joined by the separators, with a video extension
NameTokens ==
    { <<>>, <<"a","b">>, <<"a","b","C">>, <<"s","u","n","s","e","t">>, <<"b","e","a","c","h">>,
      <<"w","a","l","k">>, <<"n","a","t","u","r","e">>, <<"a","e","r","i","a","l","C","i","t","y">> }
NameSeparators == {"-", "_"}
NameExtensions == { <<".","m","p","4">>, <<".","W","e","b","M">> }

RECURSIVE TokenNames(_)
TokenNames(n) ==
    IF n <= 1 THEN NameTokens
    ELSE TokenNames(n - 1) \cup
         { a \o <<sep>> \o t : a \in TokenNames(n - 1), sep \in NameSeparators,
                               t \in NameTokens }

ClassifyInputs == { n \o e : n \in TokenNames(MaxTokens), e \in NameExtensions }

InitClassify ==
    /\ NoRun
    /\ pc = "classify"
    /\ arg \in ClassifyInputs
    /\ result = Null

Classify ==
    /\ pc = "classify"
    /\ result' = parseFilename(arg)
    /\ pc' = "classified"
    /\ UNCHANGED <<files, videoFiles, i, successCount, errorCount, metadata,
                   videoData, listing, store, docCalls, summary, exitCode,
                   trace, run, clean, arg>>

SpecClassify == InitClassify /\ [][Classify]_vars

\* dimensions and durations: absent, unparsable, and whole numbers up to a
\* bound, with some sizes met in practice
SmallDims == {Null, NaN} \cup { Num(n) : n \in 0..MaxDim }
VideoSizes ==
    { <<1920, 1080>>, <<1080, 1920>>, <<1280, 960>>, <<3840, 2160>>,
      <<2560, 1080>>, <<1080, 1080>>, <<720, 480>>, <<1920, 800>> }

AspectInputs ==
    { [width |-> w, height |-> h] : w \in SmallDims, h \in SmallDims }
    \cup { [width |-> Num(p[1]), height |-> Num(p[2])] : p \in VideoSizes }

DurationInputs ==
    { [seconds |-> x] : x \in {Null, NaN} \cup { Num(n) : n \in 0..MaxSeconds } }

InitNormalize ==
    /\ NoRun
    /\ pc = "normalize"
    /\ arg \in { a \in AspectInputs :
                    (Truthy(a.width) /\ Truthy(a.height))
                        => ~OnToleranceEdge(a.width.v, a.height.v) }
               \cup DurationInputs
    /\ result = Null

AspectRatio ==
    /\ pc = "normalize"
    /\ "width" \in DOMAIN arg
    /\ result' = getAspectRatio(arg.width, arg.height)
    /\ pc' = "aspect"
    /\ UNCHANGED <<files, videoFiles, i, successCount, errorCount, metadata,
                   videoData, listing, store, docCalls, summary, exitCode,
                   trace, run, clean, arg>>

FormatDuration ==
    /\ pc = "normalize"
    /\ "seconds" \in DOMAIN arg
    /\ result' = formatDuration(arg.seconds)
    /\ pc' = "duration"
    /\ UNCHANGED <<files, videoFiles, i, successCount, errorCount, metadata,
                   videoData, listing, store, docCalls, summary, exitCode,
                   trace, run, clean, arg>>

NextNormalize ==
    \/ AspectRatio
    \/ FormatDuration

SpecNormalize == InitNormalize /\ [][NextNormalize]_vars

\* getVideoMetadata's reading of the custom attributes, every combination of
\* absent, empty, numeric, partly numeric and non-numeric strings
AttributeStrings ==
    { Absent, Str(<<>>), Str(<<"0">>), Str(<<"1","9","2","0">>),
      Str(<<"a","b","c">>), Str(<<"1","2","p","x">>) }
AudioValues ==
    { Absent, Str(TrueString), Str(<<"f","a","l","s","e">>),
      Str(<<"T","r","u","e">>), Bool(TRUE), Bool(FALSE) }
AttributeBags ==
    { Bag(w, h, d, a) : w \in AttributeStrings, h \in AttributeStrings,
                        d \in AttributeStrings, a \in AudioValues }

InitAttributes ==
    /\ NoRun
    /\ pc = "attributes"
    /\ arg \in AttributeBags
    /\ result = Null

ReadAttributes ==
    /\ pc = "attributes"
    /\ result' = getVideoMetadata(<<"a",".","m","p","4">>, arg)
    /\ pc' = "fetched"
    /\ UNCHANGED <<files, videoFiles, i, successCount, errorCount, metadata,
                   videoData, listing, store, docCalls, summary, exitCode,
                   trace, run, clean, arg>>

SpecAttributes == InitAttributes /\ [][ReadAttributes]_vars

----------------------------------------------------------------------------
(* Reading the history of a run *)

Has(e, k) == \E j \in 1..Len(trace) : trace[j] = <<e, k>>
Pos(e, k) == CHOOSE j \in 1..Len(trace) : trace[j] = <<e, k>>
Added == { trace'[j] : j \in (Len(trace) + 1)..Len(trace') }
Candidates == 1..Len(videoFiles)

\* candidate k has been dealt with: its fetch failed or its write returned
Finished(k) == Has("fetchFail", k) \/ Has("writeOk", k) \/ Has("writeFail", k)
EndOf(k) ==
    CHOOSE j \in 1..Len(trace) :
        trace[j] \in {<<"fetchFail", k>>, <<"writeOk", k>>, <<"writeFail", k>>}
Fetched == \E j \in 1..Len(trace) : trace[j][1] = "fetchStart"
Returned == pc = "returned" \/ (pc = "exited" /\ exitCode = Num(0))
ListingsOf(k) == { l \in store : l.videoUrl = SignedUrl(videoFiles[k]) }

\* the name ends in one of the allowed extensions, compared without case
EndsInVideoExtension(name) ==
    \E e \in VideoExtensions : EndsWith(toLowerCase(name), e)

----------------------------------------------------------------------------
(* C1: when the fetch of candidate k fails, the error counter goes up by    *)
(* exactly one, the success counter and the document store stay as they    *)
(* are, neither the classifier nor the writer is ever invoked for k, the    *)
(* fetch of candidate k+1 starts in the same step, and at the end of the    *)
(* run every candidate after k has been fetched and dealt with.            *)
C1_FailedFetchState ==
    \A k \in Candidates :
        Has("fetchFail", k) =>
            /\ ~Has("classify", k)
            /\ ~Has("writeStart", k)
            /\ ListingsOf(k) = {}
            /\ Returned => \A m \in (k + 1)..Len(videoFiles) :
                               Has("fetchStart", m) /\ Finished(m)

C1_FailedFetchStep ==
    <<"fetchFail", i>> \in Added =>
        /\ errorCount' = errorCount + 1
        /\ successCount' = successCount
        /\ store' = store
        /\ docCalls' = docCalls
        /\ i < Len(videoFiles) => pc' = "fetch" /\ <<"fetchStart", i + 1>> \in Added

C1_FetchFailureSkipsAndContinues ==
    [] C1_FailedFetchState /\ [][C1_FailedFetchStep]_vars

C1_Witness ==
    /\ pc = "exited"
    /\ \E k \in Candidates :
          /\ k < Len(videoFiles)
          /\ Has("fetchFail", k)
          /\ Has("writeOk", k + 1)
          /\ errorCount = 1

----------------------------------------------------------------------------
(* C2, as stated: a run that finds no candidate ends with a summary block   *)
(* of succeeded = 0, failed = 0, total = 0, without a fetch or a write.     *)
C2_ZeroFilesCountsSummary ==
    (Returned /\ \A k \in 1..Len(files) : ~EndsInVideoExtension(files[k])) =>
        /\ summary = CompleteSummary(0, 0, 0)
        /\ ~Fetched
        /\ store = {}

(* C2, amended: a run over a listing without any name ending in an allowed  *)
(* extension never enters the loop; it returns straight from enumeration   *)
(* with the "no files" message (0 files found) in place of the             *)
(* succeeded/failed/total block, nothing counted, no fetch, no document     *)
(* reference allocated and no write.                                        *)
C2_ZeroFilesNoFilesMessage ==
    (\A k \in 1..Len(files) : ~EndsInVideoExtension(files[k])) =>
        /\ pc \in {"start", "returned", "exited"}
        /\ ~Fetched
        /\ store = {}
        /\ docCalls = 0
        /\ successCount = 0 /\ errorCount = 0
        /\ Returned => summary = NoFilesSummary /\ trace = << <<"listOk", 0>> >>

C2_Witness ==
    /\ pc = "exited"
    /\ exitCode = Num(0)
    /\ files # <<>>
    /\ \A k \in 1..Len(files) : ~EndsInVideoExtension(files[k])
    /\ summary = NoFilesSummary

----------------------------------------------------------------------------
(* C3: the batch is not idempotent.  When the r-th run over the same n      *)
(* candidates ends and no storage or document-store call has failed so far, *)
(* the store holds exactly r * n listings, r for each source file (so 2n,   *)
(* two per file, after the second run), all with different identifiers; and *)
(* every successful write adds one listing and keeps all earlier ones, also *)
(* when a listing of the same source file is already stored.                *)
C3_RerunState ==
    (pc = "exited" /\ clean) =>
        /\ Cardinality(store) = run * Len(videoFiles)
        /\ \A k \in Candidates :
              /\ Cardinality(ListingsOf(k)) = run
              /\ \A l \in ListingsOf(k) : l.fileName = basename(videoFiles[k])
        /\ Cardinality({ l.id : l \in store }) = Cardinality(store)

C3_WriteStep ==
    <<"writeOk", i>> \in Added =>
        /\ store \subseteq store'
        /\ Cardinality(store') = Cardinality(store) + 1
        /\ listing' \in store' \ store

----------------------------------------------------------------------------
(* C4: the candidates are the allowed files of the listing in listing       *)
(* order, the m-th fetch is the fetch of candidate m, at most one storage   *)
(* or document-store call is in flight, and the fetch of candidate k+1      *)
(* starts only after candidate k's fetch has failed or its write returned.  *)
InOrderOf(sub, full) ==
    \E f \in [1..Len(sub) -> 1..Len(full)] :
        /\ \A a, b \in 1..Len(sub) : a < b => f[a] < f[b]
        /\ \A a \in 1..Len(sub) : full[f[a]] = sub[a]

CountEvents(names) == Cardinality({ j \in 1..Len(trace) : trace[j][1] \in names })

C4_SequentialInListingOrder ==
    /\ InOrderOf(videoFiles, files)
    /\ \A j \in 1..Len(trace) :
          trace[j][1] = "fetchStart" =>
              trace[j][2] = Cardinality({ m \in 1..j : trace[m][1] = "fetchStart" })
    /\ CountEvents({"fetchStart", "writeStart"})
         - CountEvents({"fetchOk", "fetchFail", "writeOk", "writeFail"}) \in {0, 1}
    /\ \A k \in Candidates :
          Has("fetchStart", k + 1) =>
              Finished(k) /\ EndOf(k) < Pos("fetchStart", k + 1)

C4_Witness ==
    /\ Len(videoFiles) = 3
    /\ Has("writeOk", 1)
    /\ Has("fetchFail", 2)
    /\ pc = "fetch"
    /\ i = 3

----------------------------------------------------------------------------
(* C5: between two consecutive candidates the 500 ms delay always happens:  *)
(* the fetch of candidate k+1 starts only after a delay step that follows   *)
(* the end of candidate k, whether k succeeded, failed at fetch or failed   *)
(* at write.                                                                *)
C5_DelayBetweenCandidates ==
    \A k \in Candidates :
        Has("fetchStart", k + 1) =>
            /\ Has("delay", k)
            /\ EndOf(k) < Pos("delay", k)
            /\ Pos("delay", k) < Pos("fetchStart", k + 1)

----------------------------------------------------------------------------
(* C6: every listing in the document store has a non-empty title and the    *)
(* access URL that a successful fetch of its source file returned; when the *)
(* file name yields no token the title is "Stock Video Footage".            *)
C6_ListingHasTitleAndUrl ==
    \A l \in store :
        /\ l.title # <<>>
        /\ \E k \in Candidates :
              /\ Has("fetchOk", k)
              /\ l.videoUrl = SignedUrl(videoFiles[k])
              /\ l.fileName = basename(videoFiles[k])
        /\ Words(l.fileName) = <<>> => l.title = FallbackTitle

C6_Witness ==
    \E l, m \in store :
        /\ Words(l.fileName) = <<>>
        /\ l.title = FallbackTitle
        /\ Words(m.fileName) # <<>>
        /\ m.title # FallbackTitle

----------------------------------------------------------------------------
(* C7: when the writer's persistence call fails for a candidate, the writer *)
(* returns null and the store is left as it was; the next step adds exactly *)
(* one to the error counter and leaves the success counter alone; no        *)
(* listing of that candidate is in the store; and the run goes on: at its   *)
(* end every later candidate has been fetched and dealt with.               *)
C7_FailedWriteState ==
    \A k \in Candidates :
        Has("writeFail", k) =>
            /\ ListingsOf(k) = {}
            /\ (pc = "count" /\ i = k) => listing = Null
            /\ Returned => \A m \in (k + 1)..Len(videoFiles) :
                               Has("fetchStart", m) /\ Finished(m)

C7_FailedWriteStep ==
    /\ <<"writeFail", i>> \in Added =>
          /\ listing' = Null
          /\ store' = store
          /\ successCount' = successCount /\ errorCount' = errorCount
          /\ pc' = "count"
    /\ (pc = "count" /\ Has("writeFail", i)) =>
          /\ errorCount' = errorCount + 1
          /\ successCount' = successCount
          /\ store' = store
          /\ pc' = "delay"
    /\ (pc = "delay" /\ Has("writeFail", i) /\ i < Len(videoFiles)) =>
          pc' = "fetch" /\ i' = i + 1

C7_WriteFailureCountedAndSkipped ==
    [] C7_FailedWriteState /\ [][C7_FailedWriteStep]_vars

C7_Witness ==
    /\ pc = "exited"
    /\ Has("writeFail", 1)
    /\ Has("writeOk", 2)
    /\ errorCount = 1
    /\ successCount = 1

----------------------------------------------------------------------------
(* C8: if enumerating the bucket fails, the run is over with exit status 1: *)
(* no fetch was started, no document reference allocated, nothing written   *)
(* and no summary printed.                                                  *)
C8_EnumerationFailureIsFatal ==
    Has("listFail", 0) =>
        /\ pc = "exited"
        /\ exitCode = Num(1)
        /\ ~Fetched
        /\ trace = << <<"listFail", 0>> >>
        /\ docCalls = 0
        /\ store = {}
        /\ summary = NoSummary

C8_Witness ==
    /\ Has("listFail", 0)
    /\ pc = "exited"
    /\ \E k \in 1..Len(files) : IsVideoFile(files[k])

----------------------------------------------------------------------------
(* C9: the process has no exit status while the run is going; it exits with *)
(* status 0 exactly when enumeration succeeded, and then every candidate    *)
(* has been dealt with, whatever fetches and writes failed (all of them, or *)
(* no candidate at all); it exits with a non-zero status exactly when       *)
(* enumeration failed.                                                      *)
C9_ExitStatus ==
    /\ pc # "exited" => exitCode = Null
    /\ pc = "exited" =>
          /\ exitCode \in {Num(0), Num(1)}
          /\ exitCode = Num(0) <=> Has("listOk", 0)
          /\ exitCode = Num(1) <=> Has("listFail", 0)
          /\ Has("listOk", 0) =>
                /\ \A k \in Candidates : Finished(k)
                /\ summary # NoSummary

C9_Witness ==
    /\ pc = "exited"
    /\ exitCode = Num(0)
    /\ Len(videoFiles) = 3
    /\ Has("fetchFail", 1)
    /\ Has("writeFail", 2)
    /\ Has("fetchFail", 3)
    /\ errorCount = 3

----------------------------------------------------------------------------
(* C10: the price is 9.99 when the width is a number of at least 3840,      *)
(* else 7.99 when the duration is a number above 30, else 4.99 (also when   *)
(* either is absent); never anything else; and the stored listing carries   *)
(* that price.  price(40,1920) = 7.99, price(40,3840) = 9.99,               *)
(* price(10,1280) = 4.99.                                                   *)
IsNumber(x) == x.t = "num"

TierPrice(duration, width) ==
    IF IsNumber(width) /\ width.v >= 3840 THEN 999
    ELSE IF IsNumber(duration) /\ duration.v > 30 THEN 799
    ELSE 499

C10_PriceTiers ==
    /\ ComputePrice(Num(40), Num(1920)) = 799
    /\ ComputePrice(Num(40), Num(3840)) = 999
    /\ ComputePrice(Num(10), Num(1280)) = 499
    /\ pc \in {"write", "count", "delay"} =>
          /\ videoData.price = TierPrice(metadata.duration, metadata.width)
          /\ videoData.price \in {499, 799, 999}
          /\ listing # Null =>
                /\ listing.price = TierPrice(metadata.duration, metadata.width)
                /\ listing \in store
    /\ \A l \in store : l.price \in {499, 799, 999}

C10_Witness ==
    /\ pc = "count"
    /\ metadata.duration = Num(40)
    /\ metadata.width = Num(3840)
    /\ listing # Null
    /\ listing.price = 999
    /\ \E l \in store : l.price = 799
    /\ \E l \in store : l.price = 499

----------------------------------------------------------------------------
(* C11, as stated: classify("sunset-beach-walk.mp4") has the title "Sunset  *)
(* Beach Walk", tags that include "sunset", "golden hour", "ocean" or       *)
(* "sea" (from the token "beach"), "stock footage" and "video clip", and    *)
(* use cases that include "Content Creation".                               *)
SunsetBeachWalk == <<"s","u","n","s","e","t","-","b","e","a","c","h","-","w","a","l","k",".","m","p","4">>
SunsetBeachWalkTitle == <<"S","u","n","s","e","t"," ","B","e","a","c","h"," ","W","a","l","k">>
Elements(xs) == { xs[k] : k \in 1..Len(xs) }

C11_BeachGivesOceanTags ==
    (pc = "classified" /\ arg = SunsetBeachWalk) =>
        /\ result.title = SunsetBeachWalkTitle
        /\ {"sunset", "golden hour", "stock footage", "video clip"}
               \subseteq Elements(result.tags)
        /\ {"ocean", "sea"} \cap Elements(result.tags) # {}
        /\ "Content Creation" \in Elements(result.useCases)

(* C11, amended: the title is "Sunset Beach Walk"; the tags are exactly     *)
(* "stock footage", "video clip", "sunset", "golden hour", "evening",       *)
(* "sky", in that order, and neither "ocean" nor "sea" is among them: a     *)
(* token is matched against the category keys only, and "beach" is no       *)
(* substring of a key nor has a key as substring; the use cases are the     *)
(* generic four, which include "Content Creation".                          *)
C11_SunsetBeachWalk ==
    (pc = "classified" /\ arg = SunsetBeachWalk) =>
        /\ result.title = SunsetBeachWalkTitle
        /\ result.tags = <<"stock footage", "video clip", "sunset",
                           "golden hour", "evening", "sky">>
        /\ {"ocean", "sea"} \cap Elements(result.tags) = {}
        /\ \A c \in 1..Len(categoryMap) :
              ~Matches(<<"b","e","a","c","h">>, categoryMap[c].key)
        /\ result.useCases = <<"Content Creation", "Marketing", "Background",
                               "Social Media">>

C11_Witness ==
    /\ pc = "classified"
    /\ arg = SunsetBeachWalk
    /\ Len(result.tags) = 6

----------------------------------------------------------------------------
(* C12: for every file name made of tokens and the separators "-" and "_"   *)
(* in which some token is longer than 2, the title returned is not empty    *)
(* and the tags contain "stock footage" and "video clip".                   *)
RECURSIVE SeparatedTokens(_, _)
SeparatedTokens(s, cur) ==
    IF s = <<>> THEN {cur}
    ELSE IF Head(s) \in NameSeparators
         THEN {cur} \cup SeparatedTokens(Tail(s), <<>>)
         ELSE SeparatedTokens(Tail(s), Append(cur, Head(s)))

HasLongToken(name) ==
    \E t \in SeparatedTokens(StripExtension(name), <<>>) : Len(t) > 2

C12_TitleAndBaselineTags ==
    (pc = "classified" /\ HasLongToken(arg)) =>
        /\ result.title # <<>>
        /\ {"stock footage", "video clip"} \subseteq Elements(result.tags)

C12_Witness ==
    /\ pc = "classified"
    /\ HasLongToken(arg)
    /\ result.title # FallbackTitle
    /\ Len(result.tags) = MaxTags
    /\ result.tags[1] = "stock footage"
    /\ result.tags[2] = "video clip"

----------------------------------------------------------------------------
(* C13: aspectRatio is "Unknown" exactly when a dimension is missing or     *)
(* zero; otherwise it is the label of the first of 16:9, 9:16, 1:1, 4:3,    *)
(* 21:9 whose value is less than 0.1 away from width / height, and          *)
(* "<width>x<height>" when none is.  (1920,1080) is "16:9 (Landscape)",     *)
(* (1080,1920) "9:16 (Portrait)", (0,1080) "Unknown", (1280,960) "4:3       *)
(* (Standard)".                                                             *)
CanonicalRatios ==
    << [n |-> 16, d |-> 9, label |-> Label16x9],
       [n |-> 9, d |-> 16, label |-> Label9x16],
       [n |-> 1, d |-> 1, label |-> Label1x1],
       [n |-> 4, d |-> 3, label |-> Label4x3],
       [n |-> 21, d |-> 9, label |-> Label21x9] >>

\* n/d - 1/10 < w/h < n/d + 1/10
InBand(w, h, r) ==
    /\ (10 * r.n - r.d) * h < 10 * r.d * w
    /\ 10 * r.d * w < (10 * r.n + r.d) * h

MissingOrZero(x) == x.t # "num" \/ x.v = 0

----------------------------------------------------------------------------
(* C14: durationLabel is "Unknown" when the seconds are absent or zero; for *)
(* a positive whole number s = 60 m + r with 0 <= r <= 59 it is "<m>m <r>s" *)
(* when m > 0 and "<r>s" when m = 0.  95 gives "1m 35s", 45 gives "45s",    *)
(* 0 gives "Unknown".                                                       *)
C14_DurationLabel ==
    /\ formatDuration(Num(95)) = <<"1","m"," ","3","5","s">>
    /\ formatDuration(Num(45)) = <<"4","5","s">>
    /\ formatDuration(Num(0)) = UnknownLabel
    /\ pc = "duration" =>
          IF MissingOrZero(arg.seconds)
          THEN result = UnknownLabel
          ELSE \E m \in 0..arg.seconds.v, r \in 0..59 :
                  /\ 60 * m + r = arg.seconds.v
                  /\ result = IF m > 0
                              THEN DecimalString(m) \o <<"m", " ">>
                                       \o DecimalString(r) \o <<"s">>
                              ELSE DecimalString(r) \o <<"s">>

C14_Witness ==
    /\ pc = "duration"
    /\ arg = [seconds |-> Num(95)]
    /\ result = <<"1","m"," ","3","5","s">>

----------------------------------------------------------------------------
(* C15: there is no retry.  Within one run every candidate is fetched at    *)
(* most once and its write is attempted at most once, and once the fetch or *)
(* the write of a candidate has failed, no further fetch or write of that   *)
(* candidate is started.                                                    *)
Occurrences(e, k) == Cardinality({ j \in 1..Len(trace) : trace[j] = <<e, k>> })

C15_NoRetry ==
    \A k \in Candidates :
        /\ Occurrences("fetchStart", k) <= 1
        /\ Occurrences("writeStart", k) <= 1
        /\ \A j \in 1..Len(trace) :
              trace[j] \in {<<"fetchFail", k>>, <<"writeFail", k>>, <<"writeOk", k>>} =>
                  \A m \in (j + 1)..Len(trace) :
                      trace[m] \notin {<<"fetchStart", k>>, <<"writeStart", k>>}

\* the run is over, one candidate's fetch failed, another's write failed
C15_Witness ==
    /\ pc = "exited"
    /\ summary # NoSummary
    /\ \E k, m \in Candidates :
          /\ k # m
          /\ Occurrences("fetchFail", k) = 1
          /\ Occurrences("fetchStart", k) = 1
          /\ Occurrences("writeFail", m) = 1
          /\ Occurrences("writeStart", m) = 1

----------------------------------------------------------------------------
(* C16: every candidate is counted exactly once.  At the start of each loop *)
(* iteration the success counter plus the error counter is the number of    *)
(* candidates already processed, and in the summary succeeded plus failed   *)
(* is the total number of candidates.                                       *)
Processed == { k \in Candidates : Finished(k) }

C16_CountersSum ==
    /\ pc = "fetch" =>
          /\ successCount + errorCount = i - 1
          /\ Processed = 1..(i - 1)
    /\ summary.kind = "complete" =>
          /\ summary.succeeded + summary.failed = summary.total
          /\ summary.total = Len(videoFiles)
          /\ summary.succeeded = Cardinality({ k \in Candidates : Has("writeOk", k) })
          /\ summary.failed =
                Cardinality({ k \in Candidates :
                                 Has("fetchFail", k) \/ Has("writeFail", k) })

\* the summary of three candidates: one written, one unfetched, one unwritten
C16_Witness ==
    /\ summary.kind = "complete"
    /\ summary.total = 3
    /\ summary.succeeded = 1
    /\ summary.failed = 2
    /\ \E k, m \in Candidates : Has("fetchFail", k) /\ Has("writeFail", m)

----------------------------------------------------------------------------
(* C17: in every state of a run the number of listings the run has added to *)
(* the document store is the success counter, or one more between the       *)
(* successful write and the counter update; at the summary they are equal,  *)
(* and the listings carry the source file names of distinct candidates      *)
(* whose fetch and write both succeeded.                                    *)
WrittenNotCounted == pc = "count" /\ listing # Null

C17_ListingsMatchSuccessCount ==
    /\ Cardinality(store) = successCount + (IF WrittenNotCounted THEN 1 ELSE 0)
    /\ summary.kind = "complete" =>
          /\ Cardinality(store) = successCount
          /\ summary.succeeded = Cardinality(store)
          /\ \E f \in [store -> Candidates] :
                /\ \A a, b \in store : a # b => f[a] # f[b]
                /\ \A l \in store :
                      /\ l.fileName = basename(videoFiles[f[l]])
                      /\ l.videoUrl = SignedUrl(videoFiles[f[l]])
                      /\ Has("fetchOk", f[l])
                      /\ Has("writeOk", f[l])

\* two listings with the same file name, from candidates in different folders
C17_Witness ==
    /\ summary.kind = "complete"
    /\ successCount = 2
    /\ errorCount = 1
    /\ \E a, b \in store : a # b /\ a.fileName = b.fileName

----------------------------------------------------------------------------
(* C18: the fetcher is read-only with respect to the document store.  No    *)
(* step in which a fetch starts, succeeds or fails changes the set of       *)
(* listings, and neither does a failed write; the only step that changes    *)
(* the store is a successful write, which adds exactly one listing and      *)
(* keeps every existing one as it is.                                       *)
AddedKinds == { e[1] : e \in Added }

C18_Step ==
    /\ "writeOk" \notin AddedKinds => store' = store
    /\ AddedKinds \cap {"fetchStart", "fetchOk", "fetchFail", "writeFail"} # {}
          => store' = store
    /\ "writeOk" \in AddedKinds =>
          /\ store \subseteq store'
          /\ Cardinality(store' \ store) = 1
          /\ store' \ store = {listing'}

----------------------------------------------------------------------------
(* C19: only candidate files are ever touched.  As stated: a listed file    *)
(* whose name does not end in .mp4, .mov, .avi or .webm (compared without   *)
(* case) is never fetched, never gets a listing and is not counted, and     *)
(* every file whose name does end in one of them is a candidate.            *)
IsCandidate(name) == \E j \in Candidates : videoFiles[j] = name

\* what is fetched, listed and counted belongs to the candidates
OnlyCandidatesTouched ==
    /\ \A j \in 1..Len(trace) :
          trace[j][1] \notin {"listOk", "listFail"} => trace[j][2] \in Candidates
    /\ \A l \in store : \E j \in Candidates : l.videoUrl = SignedUrl(videoFiles[j])
    /\ summary.kind = "complete" =>
          /\ summary.total = Cardinality({ k \in 1..Len(files) : IsCandidate(files[k]) })
          /\ summary.succeeded + summary.failed = summary.total

C19_SuffixDecidesCandidates ==
    /\ ~Has("listOk", 0) => trace \in {<<>>, << <<"listFail", 0>> >>}
    /\ Has("listOk", 0) =>
          /\ \A k \in 1..Len(files) :
                IsCandidate(files[k]) <=> EndsInVideoExtension(files[k])
          /\ OnlyCandidatesTouched

(* C19, amended: the allow-list is compared with the extension of the       *)
(* name's last path segment, trailing slashes ignored.  A listed file is a  *)
(* candidate exactly when that segment ends in .mp4, .mov, .avi or .webm    *)
(* (compared without case) and has at least one character before it; every *)
(* other file is never fetched, never gets a listing and is not counted.    *)
Trimmed(name) ==
    LET n == CHOOSE n \in 0..Len(name) :
                 /\ n = 0 \/ name[n] # "/"
                 /\ \A m \in (n + 1)..Len(name) : name[m] = "/"
    IN  SubSeq(name, 1, n)

LastSegment(name) ==
    LET t == Trimmed(name)
        s == CHOOSE s \in 1..(Len(t) + 1) :
                 /\ \A m \in s..Len(t) : t[m] # "/"
                 /\ s = 1 \/ t[s - 1] = "/"
    IN  SubSeq(t, s, Len(t))

HasVideoExtension(name) ==
    \E e \in VideoExtensions :
        /\ EndsWith(toLowerCase(LastSegment(name)), e)
        /\ Len(LastSegment(name)) > Len(e)

C19_ExtensionDecidesCandidates ==
    /\ pc = "start" =>
          \A n \in ObjectNames : IsVideoFile(n) <=> HasVideoExtension(n)
    /\ ~Has("listOk", 0) => trace \in {<<>>, << <<"listFail", 0>> >>}
    /\ Has("listOk", 0) =>
          /\ \A k \in 1..Len(files) :
                IsCandidate(files[k]) <=> HasVideoExtension(files[k])
          /\ OnlyCandidatesTouched

\* a finished run over a bucket that also holds ".mp4" and "notes.txt"
C19_Witness ==
    /\ summary.kind = "complete"
    /\ Len(files) = 5
    /\ summary.total = 3
    /\ Cardinality(store) = 2
    /\ \E k \in 1..Len(files) :
          EndsInVideoExtension(files[k]) /\ ~IsCandidate(files[k])
    /\ \E k \in 1..Len(files) :
          ~EndsInVideoExtension(files[k]) /\ ~IsCandidate(files[k])

----------------------------------------------------------------------------
(* C20: as stated, if every storage and document-store call returns and     *)
(* the enumeration succeeds, the run eventually reaches the summary having  *)
(* processed every candidate exactly once.                                  *)
ProcessedOnce(k) ==
    /\ Occurrences("fetchStart", k) = 1
    /\ Occurrences("fetchFail", k) + Occurrences("writeOk", k)
          + Occurrences("writeFail", k) = 1

AtSummary ==
    /\ summary.kind = "complete"
    /\ summary.total = Len(videoFiles)
    /\ \A k \in Candidates : ProcessedOnce(k)

C20_RunReachesSummary == Has("listOk", 0) ~> AtSummary

(* C20, amended: if every storage and document-store call returns and the   *)
(* enumeration succeeds, the run eventually ends normally having processed  *)
(* every candidate exactly once: at the summary when there is at least one  *)
(* candidate, after the no-files message when there is none.  No state has  *)
(* the run stopped part-way through the candidate list.                     *)
AtNoFilesMessage ==
    /\ summary = NoFilesSummary
    /\ Len(videoFiles) = 0
    /\ store = {}

InsideLoop == pc \in {"fetch", "write", "count", "delay"}

C20_RunCompletes ==
    /\ Has("listOk", 0) ~>
          /\ pc = "exited"
          /\ exitCode = Num(0)
          /\ IF Len(videoFiles) > 0 THEN AtSummary ELSE AtNoFilesMessage
    /\ InsideLoop ~> AtSummary
    /\ [](pc = "exited" /\ Has("listOk", 0) => \A k \in Candidates : ProcessedOnce(k))

\* the run is over: three candidates, each processed once, each in its way
C20_Witness ==
    /\ pc = "exited"
    /\ exitCode = Num(0)
    /\ AtSummary
    /\ Has("fetchFail", 1)
    /\ Has("writeFail", 2)
    /\ Has("writeOk", 3)

----------------------------------------------------------------------------
(* C21: in the fetcher each of width, height and duration that is absent or *)
(* cannot be parsed as a number comes out as null, never as not-a-number,   *)
(* and does not make the fetch fail; hasAudio is true only for the boolean  *)
(* true or the string "true".                                               *)
NumericFields == {"width", "height", "duration"}

\* the attribute is a string that starts with a decimal digit
StartsWithDigit(raw) == raw.t = "str" /\ raw.s # <<>> /\ IsDigit(raw.s[1])

C21_UnparsableIsNull ==
    pc = "fetched" =>
        /\ result # Null
        /\ \A f \in NumericFields :
              /\ result[f] # NaN
              /\ ~StartsWithDigit(arg[f]) => result[f] = Null
              /\ StartsWithDigit(arg[f]) => result[f].t = "num"
        /\ result.hasAudio <=> arg.hasAudio \in {Bool(TRUE), Str(TrueString)}

----------------------------------------------------------------------------
(* C22: for every file name classify returns at most 10 tags and between 1  *)
(* and 6 use cases; they are the first 10 and the first 6 in discovery      *)
(* order, so the two baseline tags are the first two tags; and when no      *)
(* category with a use-case entry matched, the use cases are exactly the    *)
(* generic four.                                                            *)
IsPrefixOf(xs, ys, n) ==
    /\ Len(xs) = (IF Len(ys) < n THEN Len(ys) ELSE n)
    /\ \A k \in 1..Len(xs) : xs[k] = ys[k]

UseCaseCategoryMatched(ws) ==
    \E w \in 1..Len(ws), k \in 1..Len(useCaseMap) :
        \/ Includes(ws[w], useCaseMap[k].key)
        \/ Includes(useCaseMap[k].key, ws[w])

C22_TagAndUseCaseLimits ==
    pc = "classified" =>
        LET ws == Words(arg)
            found == Discovered(ws)
        IN  /\ Len(result.tags) <= MaxTags
            /\ Len(result.useCases) >= 1
            /\ Len(result.useCases) <= MaxUseCases
            /\ IsPrefixOf(result.tags, found.tags, MaxTags)
            /\ found.useCases # <<>> =>
                  IsPrefixOf(result.useCases, found.useCases, MaxUseCases)
            /\ Len(result.tags) >= 2
            /\ result.tags[1] = "stock footage"
            /\ result.tags[2] = "video clip"
            /\ ~UseCaseCategoryMatched(ws) =>
                  result.useCases = <<"Content Creation", "Marketing",
                                      "Background", "Social Media">>

\* more than 10 tags and more than 6 use cases were discovered
C22_Witness ==
    /\ pc = "classified"
    /\ Len(Discovered(Words(arg)).tags) > MaxTags
    /\ Len(Discovered(Words(arg)).useCases) > MaxUseCases
    /\ Len(result.tags) = MaxTags
    /\ Len(result.useCases) = MaxUseCases

----------------------------------------------------------------------------
(* C23: for every file name the description returned by classify is the     *)
(* fixed sentence with the lower-case form of the returned title put into   *)
(* it, also when no token survives and the returned title is the fallback   *)
(* "Stock Video Footage".                                                   *)
C23_DescriptionOfReturnedTitle ==
    pc = "classified" =>
        /\ Len(result.description) = 3
        /\ result.description[1] = "High-quality "
        /\ result.description[2] = toLowerCase(result.title)
        /\ result.description[3] = Description(<<>>)[3]

----------------------------------------------------------------------------
(* C24: the five tolerance bands (16/9, 9/16, 1, 4/3, 21/9, each plus or    *)
(* minus 0.1) are pairwise disjoint: for positive whole widths and heights  *)
(* at most one of the five tests of aspectRatio is true, so the order in    *)
(* which they are made does not change the result.                          *)

\* |n1/d1 - n2/d2| >= 0.2: no ratio is less than 0.1 away from both
BandsApart(r1, r2) == 10 * Abs(r1.n * r2.d - r2.n * r1.d) >= 2 * r1.d * r2.d

TestsPassed(w, h) ==
    { k \in 1..Len(CanonicalRatios) :
         Near(w, h, CanonicalRatios[k].n, CanonicalRatios[k].d) }

C24_BandsDisjoint ==
    /\ \A a, b \in 1..Len(CanonicalRatios) :
          a # b => BandsApart(CanonicalRatios[a], CanonicalRatios[b])
    /\ (pc = "aspect" /\ Truthy(arg.width) /\ Truthy(arg.height)) =>
          LET passed == TestsPassed(arg.width.v, arg.height.v)
          IN  /\ Cardinality(passed) <= 1
              /\ \A k \in passed : result = CanonicalRatios[k].label
              /\ passed = {} =>
                    result = Dimensions(arg.width.v, arg.height.v)

\* 21:9 is the last test made and the only one that passes
C24_Witness ==
    /\ pc = "aspect"
    /\ arg = [width |-> Num(21), height |-> Num(9)]
    /\ TestsPassed(21, 9) = {5}
    /\ result = Label21x9

====
